---- MODULE Spec2Model ----
(***************************************************************************)
(* Model of the retrieval core of the RAG chatbot: FAISSVectorStore        *)
(* (src/src/vector_store.py) with its two persisted artifacts and the      *)
(* callers that search it; then DocumentChunker, format_context, the batch *)
(* embedding loop, and RAGPipeline with its front ends, each with a        *)
(* specification of its own over the same variables.                       *)
(*                                                                         *)
(* Vectors.  An embedding has `dimension` float32 coordinates.  The model  *)
(* keeps the width and the two leading coordinates as integers; every      *)
(* other coordinate is 0.  A unit vector v/|v| is represented exactly by   *)
(* the shortest integer vector on the same ray, so normalisation is a real *)
(* conversion (<<2,0>> and <<1,0>> normalise to the same vector) and inner *)
(* products of unit vectors are compared exactly as signed squares.        *)
(***************************************************************************)
EXTENDS Integers, Sequences, FiniteSets, TLC

VARIABLES
    index,      \* self.index: None or the IndexFlatIP built or loaded
    chunks,     \* self.chunks: the chunk list
    disk,       \* the index directory: faiss.index and chunks.pkl
    ret,        \* outcome of the most recent call on the store
    tieRule,    \* how the linked FAISS build orders equal scores
    calls,      \* the search call, if any, each front-end session is in
    persisted,  \* history: the store whose save_index last completed, while
                \* the directory still holds what that call wrote
    history,    \* conversation_manager.history of the one RAGPipeline
    turn,       \* the chat turn a front end is in: the call, its result
    text,       \* the document handed to the chunker
    chunker,    \* what the chunker was asked and what it returned
    fmt,        \* format_context: the chunks given and the string returned
    batch,      \* generate_batch_embeddings: texts, attempts, embeddings
    cleaned,    \* the normaliser: what it was given and what it returned
    log         \* history: the messages added since the last clear

vars == <<index, chunks, disk, ret, tieRule, calls, persisted,
          history, turn, text, chunker, fmt, batch, cleaned, log>>

\* The variables a call on the vector store leaves alone, and likewise for
\* the pipeline, the chunker, the formatter and the embedding generator.
notStore == <<history, turn, text, chunker, fmt, batch, cleaned, log>>

----------------------------------------------------------------------------
(* Bounds *)

MaxN == 2       \* largest number of embeddings / chunks handed to create_index
MaxK == 2       \* largest k handed to search

(* Program constants *)

dimension == 768

KBs == {"kb1", "kb2"}           \* knowledge-base versions that get indexed
Sessions == {"s1", "s2"}        \* concurrent callers of search
TieRules == {"position", "heap"} \* equal scores: by position / as FAISS's heap

----------------------------------------------------------------------------
(* Vectors, normalisation, inner product *)

Vec(w, a, b) == [w |-> w, c |-> <<a, b>>]

Abs(x) == IF x < 0 THEN -x ELSE x

Sign(x) == IF x < 0 THEN -1 ELSE IF x > 0 THEN 1 ELSE 0

RECURSIVE GCD(_, _)
GCD(a, b) == IF b = 0 THEN a ELSE GCD(b, a % b)

Dot(u, v) == u.c[1] * v.c[1] + u.c[2] * v.c[2]

\* faiss.normalize_L2 on one row: x / |x|, a zero row is left as it is.
normalize_L2(v) ==
    IF Dot(v, v) = 0 THEN v
    ELSE LET g == GCD(Abs(v.c[1]), Abs(v.c[2]))
         IN  [w |-> v.w, c |-> <<v.c[1] \div g, v.c[2] \div g>>]

\* Inner product of two normalised vectors: Dot(u,q) / (|u| |q|), kept as the
\* sign and the reduced square  sgn * sqrt(num / den).
InnerProduct(u, q) ==
    LET d   == Dot(u, q)
        den == Dot(u, u) * Dot(q, q)
    IN  IF d = 0 THEN [sgn |-> 0, num |-> 0, den |-> 1]
        ELSE LET g == GCD(d * d, den)
             IN  [sgn |-> Sign(d), num |-> (d * d) \div g, den |-> den \div g]

ScoreLess(s, t) == s.sgn * s.num * t.den < t.sgn * t.num * s.den

\* The distance FAISS reports next to a label of -1.
MinusInf == [sgn |-> -1, num |-> 1, den |-> 0]

----------------------------------------------------------------------------
(* Inputs *)

\* The embedding the provider returns for chunk i (from 1) of a knowledge
\* base, as an array row of width w.  The rows of one knowledge base point in
\* pairwise different directions and none is of unit length.
Embed(kb, i, w) == IF kb = "kb1" THEN Vec(w, 2 * i, 2) ELSE Vec(w, 3, 3 * i)

\* The embeddings array of the first n chunks of a knowledge base.
Embeddings(kb, n, w) == [i \in 1..n |-> Embed(kb, i, w)]

\* Widths an embeddings array can have: the configured one and another model's.
Widths == {dimension, dimension \div 2}

\* Chunk records of one knowledge base: chunk_id is the emission position.
Chunk(kb, i) == [kb |-> kb, chunk_id |-> i]

ChunkList(kb, m) == [i \in 1..m |-> Chunk(kb, i - 1)]

Queries == {Vec(dimension, 1, 0), Vec(dimension, 2, 2)}

----------------------------------------------------------------------------
(* The store *)

\* self.index = None.
None == [built |-> FALSE, d |-> 0, xb |-> <<>>]

\* faiss.IndexFlatIP(d): an empty exact inner-product index of width d; xb
\* holds its vectors in the order they were added.
IndexFlatIP(d) == [built |-> TRUE, d |-> d, xb |-> <<>>]

ntotal(idx) == Len(idx.xb)

get_stats(idx, chs) ==
    [total_vectors |-> IF idx.built THEN ntotal(idx) ELSE 0,
     dimension     |-> dimension,
     total_chunks  |-> Len(chs)]

Absent == [st |-> "absent"]
Corrupt == [st |-> "corrupt"]
File(data) == [st |-> "ok", data |-> data]

Nothing == [some |-> FALSE]

\* A component that has not been called yet.
Idle == [pc |-> "idle"]

\* The components next to the store, before their first call: RAGPipeline's
\* empty conversation, no document chunked, nothing formatted or embedded.
othersIdle ==
    /\ history = <<>>
    /\ turn = Idle
    /\ text = Idle
    /\ chunker = Idle
    /\ fmt = Idle
    /\ batch = Idle
    /\ cleaned = Idle
    /\ log = <<>>

Init ==
    /\ index = None
    /\ chunks = <<>>
    /\ disk = [faiss_index |-> Absent, chunks_pkl |-> Absent]
    /\ ret = [op |-> "__init__", outcome |-> "return"]
    /\ tieRule \in TieRules
    /\ calls = [s \in Sessions |-> [pc |-> "idle"]]
    /\ persisted = Nothing
    /\ othersIdle

----------------------------------------------------------------------------
(* create_index *)

\* index.add(x): the rows are appended in order.
add(idx, x) == [idx EXCEPT !.xb = idx.xb \o x]

\* faiss.normalize_L2 on the copy of the whole array.
normalize_rows(E) == [i \in 1..Len(E) |-> normalize_L2(E[i])]

\* create_index(E, C) on a store holding chs: the store it leaves and how it
\* ends.  Nothing compares len(E) with len(C).  index.add rejects an array
\* whose width w is not the index's (AssertionError), after self.index has
\* been replaced by the new empty index and before self.chunks is set.
created(chs, E, w, C) ==
    LET embeddings_norm == normalize_rows(E)
        fresh == IndexFlatIP(dimension)
    IN  IF w = fresh.d
        THEN [index |-> add(fresh, embeddings_norm), chunks |-> C,
              outcome |-> "return"]
        ELSE [index |-> fresh, chunks |-> chs, outcome |-> "raise"]

\* create_index with the embeddings of n chunks (width w) and a list of m
\* chunks of one knowledge base.
create_index ==
    \E w \in Widths, kb \in KBs, n \in 0..MaxN, m \in 0..MaxN :
        LET r == created(chunks, Embeddings(kb, n, w), w, ChunkList(kb, m))
        IN  /\ index' = r.index
            /\ chunks' = r.chunks
            /\ ret' = [op |-> "create_index", outcome |-> r.outcome,
                       mismatch |-> (n # m)]
            /\ UNCHANGED <<notStore, disk, tieRule, calls, persisted>>

----------------------------------------------------------------------------
(* save_index *)

\* How the two writes of save_index can end: both done; faiss.write_index
\* raises having written nothing or part of faiss.index; the open / pickle.dump
\* of chunks.pkl raises having written nothing or part of it.
SaveOutcomes ==
    {"ok", "index_unwritten", "index_partial", "chunks_unwritten", "chunks_partial"}

\* The directory after the writes of save_index, in their order: faiss.index
\* first, chunks.pkl second.
write_files(d, idx, chs, o) ==
    CASE o = "index_unwritten"  -> d
      [] o = "index_partial"    -> [d EXCEPT !.faiss_index = Corrupt]
      [] o = "chunks_unwritten" -> [d EXCEPT !.faiss_index = File(idx)]
      [] o = "chunks_partial"   -> [d EXCEPT !.faiss_index = File(idx),
                                             !.chunks_pkl = Corrupt]
      [] OTHER                  -> [faiss_index |-> File(idx), chunks_pkl |-> File(chs)]

\* save_index(): without an index it logs "No index to save" and returns;
\* an exception of either write is logged and re-raised.
save_index ==
    /\ IF ~index.built
         THEN /\ disk' = disk
              /\ ret' = [op |-> "save_index", outcome |-> "return", saved |-> FALSE]
              /\ persisted' = persisted
         ELSE \E o \in SaveOutcomes :
                /\ disk' = write_files(disk, index, chunks, o)
                /\ ret' = [op |-> "save_index",
                           outcome |-> IF o = "ok" THEN "return" ELSE "raise",
                           saved |-> (o = "ok")]
                /\ persisted' =
                      IF o = "ok"
                      THEN [some |-> TRUE, index |-> index, chunks |-> chunks]
                      ELSE IF disk' = disk THEN persisted ELSE Nothing
    /\ UNCHANGED <<notStore, index, chunks, tieRule, calls>>

----------------------------------------------------------------------------
(* load_index *)

exists(f) == f.st # "absent"

\* load_index that reads the index and leaves self.chunks as it was.
load_result_keeps_chunks(d, idx, chs) ==
    IF ~exists(d.faiss_index) \/ ~exists(d.chunks_pkl)
    THEN [index |-> idx, chunks |-> chs, outcome |-> "return", value |-> FALSE]
    ELSE IF d.faiss_index.st = "corrupt" \/ d.chunks_pkl.st = "corrupt"
    THEN [index |-> idx, chunks |-> chs, outcome |-> "return", value |-> FALSE]
    ELSE [index |-> d.faiss_index.data, chunks |-> chs,
          outcome |-> "return", value |-> TRUE]

\* load_index that asks only for faiss.index and takes a missing chunks.pkl
\* for an empty chunk list.
load_result_index_only(d, idx, chs) ==
    IF ~exists(d.faiss_index) \/ d.faiss_index.st = "corrupt"
    THEN [index |-> idx, chunks |-> chs, outcome |-> "return", value |-> FALSE]
    ELSE IF d.chunks_pkl.st = "corrupt"
    THEN [index |-> d.faiss_index.data, chunks |-> chs,
          outcome |-> "return", value |-> FALSE]
    ELSE [index |-> d.faiss_index.data,
          chunks |-> IF exists(d.chunks_pkl) THEN d.chunks_pkl.data ELSE <<>>,
          outcome |-> "return", value |-> TRUE]

\* load_index() on a store holding idx and chs: the store it leaves and the
\* value it returns.  The index is assigned as soon as faiss.read_index
\* returns; an exception of either read is caught and turned into False.
load_result(d, idx, chs) ==
    IF ~exists(d.faiss_index) \/ ~exists(d.chunks_pkl)
    THEN [index |-> idx, chunks |-> chs, outcome |-> "return", value |-> FALSE]
    ELSE IF d.faiss_index.st = "corrupt"
    THEN [index |-> idx, chunks |-> chs, outcome |-> "return", value |-> FALSE]
    ELSE IF d.chunks_pkl.st = "corrupt"
    THEN [index |-> d.faiss_index.data, chunks |-> chs,
          outcome |-> "return", value |-> FALSE]
    ELSE [index |-> d.faiss_index.data, chunks |-> d.chunks_pkl.data,
          outcome |-> "return", value |-> TRUE]

load_index ==
    LET r == load_result(disk, index, chunks)
    IN  /\ index' = r.index
        /\ chunks' = r.chunks
        /\ ret' = [op |-> "load_index", outcome |-> r.outcome, value |-> r.value]
        /\ UNCHANGED <<notStore, disk, tieRule, calls, persisted>>

\* FAISSVectorStore(): a fresh instance (load_vector_store, create_vector_store,
\* a restarted process) over the same index directory.
new_store ==
    /\ index' = None
    /\ chunks' = <<>>
    /\ ret' = [op |-> "__init__", outcome |-> "return"]
    /\ UNCHANGED <<notStore, disk, tieRule, calls, persisted>>

----------------------------------------------------------------------------
(* search *)

\* The vector of H that FAISS's result heap holds at its top: the one of lowest
\* inner product and, among those, of lowest position.
HeapTop(sc, H) ==
    CHOOSE t \in H : \A o \in H \ {t} :
        ScoreLess(sc[t], sc[o]) \/ (sc[t] = sc[o] /\ t < o)

\* The scan of the exact search over positions i..Len(sc) with a result heap
\* of k places holding H: a vector enters while a place is free, or in place
\* of the top when its inner product is strictly higher than the top's.
RECURSIVE HeapScan(_, _, _, _)
HeapScan(sc, k, i, H) ==
    IF i > Len(sc) THEN H
    ELSE IF Cardinality(H) < k THEN HeapScan(sc, k, i + 1, H \cup {i})
    ELSE IF ScoreLess(sc[HeapTop(sc, H)], sc[i])
         THEN HeapScan(sc, k, i + 1, (H \ {HeapTop(sc, H)}) \cup {i})
         ELSE HeapScan(sc, k, i + 1, H)

\* Whether vector j is listed before vector i: by descending inner product;
\* equal products by ascending position under the rule "position", and as
\* the reordered result heap leaves them, by descending position, under the
\* rule "heap".
ListedBefore(sc, j, i, rule) ==
    \/ ScoreLess(sc[i], sc[j])
    \/ /\ sc[i] = sc[j]
       /\ IF rule = "position" THEN j < i ELSE j > i

\* The vectors the search keeps: under "position" the k first in listing
\* order, under "heap" those the heap holds at the end of the scan.
Kept(sc, k, rule) ==
    IF rule = "heap" THEN HeapScan(sc, k, 1, {})
    ELSE {i \in 1..Len(sc) :
            Cardinality({j \in 1..Len(sc) : ListedBefore(sc, j, i, rule)}) < k}

\* A ranking that lists the kept vectors in ascending order of inner product.
Ranked_ascending(sc, k, rule) ==
    LET H == Kept(sc, k, rule)
        Pos(r) == CHOOSE i \in H :
            Cardinality({j \in H : ListedBefore(sc, i, j, rule)}) + 1 = r
    IN  [r \in 1..k |-> IF r <= Cardinality(H) THEN <<Pos(r) - 1, sc[Pos(r)]>>
                        ELSE <<-1, MinusInf>>]

\* The k best of the inner products sc, best first, as (label, distance)
\* pairs, padded with (-1, lowest float).
Ranked(sc, k, rule) ==
    LET H == Kept(sc, k, rule)
        Pos(r) == CHOOSE i \in H :
            Cardinality({j \in H : ListedBefore(sc, j, i, rule)}) + 1 = r
    IN  [r \in 1..k |-> IF r <= Cardinality(H) THEN <<Pos(r) - 1, sc[Pos(r)]>>
                        ELSE <<-1, MinusInf>>]

\* index.search(query_norm, k) of the exact inner-product index, as the pairs
\* zip(indices[0], distances[0]): k labels (0-based positions) by descending
\* inner product, equal products ordered as the linked FAISS build orders
\* them, padded with -1 when the index holds fewer than k vectors; next to
\* each label its inner product.
index_search(idx, qn, k, rule) ==
    LET n  == ntotal(idx)
        sc == [i \in 1..n |-> InnerProduct(idx.xb[i], qn)]
    IN  Ranked(sc, k, rule)

\* The loop without the test idx >= 0: a label of -1 indexes a non-empty list
\* from its end, as a negative subscript does.
collect_negative(chs, hits) ==
    LET Valid(h) == h[1] < Len(chs) /\ Len(chs) > 0
        kept == SelectSeq(hits, Valid)
        At(l) == IF l < 0 THEN Len(chs) + 1 + l ELSE l + 1
    IN  [j \in 1..Len(kept) |-> <<chs[At(kept[j][1])], kept[j][2]>>]

\* The loop pairing a label with the chunk after the one it names.
collect_next(chs, hits) ==
    LET Valid(h) == h[1] + 1 < Len(chs) /\ h[1] >= 0
        kept == SelectSeq(hits, Valid)
    IN  [j \in 1..Len(kept) |-> <<chs[kept[j][1] + 2], kept[j][2]>>]

\* The loop over zip(indices[0], distances[0]): a hit is kept when its label
\* is a position of the chunk list.
collect(chs, hits) ==
    LET Valid(h) == h[1] < Len(chs) /\ h[1] >= 0
        kept == SelectSeq(hits, Valid)
    IN  [j \in 1..Len(kept) |-> <<chs[kept[j][1] + 1], kept[j][2]>>]

\* search(query_embedding, k) as one call: [] without an index, else the
\* query is normalised (a copy), the index searched, the hits collected.
search_result(idx, chs, q, k, rule) ==
    IF ~idx.built THEN <<>>
    ELSE collect(chs, index_search(idx, normalize_L2(q), k, rule))

search ==
    \E q \in Queries, k \in 1..MaxK :
        /\ ret' = [op |-> "search", outcome |-> "return", q |-> q, k |-> k,
                   results |-> search_result(index, chunks, q, k, tieRule)]
        /\ UNCHANGED <<notStore, index, chunks, disk, tieRule, calls, persisted>>

\* A first step of search that adds the normalised query to the index it
\* searches.
search_call_adds_query(s) ==
    /\ calls[s].pc \in {"idle", "done"}
    /\ \E q \in Queries, k \in 1..MaxK :
         /\ index' = IF index.built THEN add(index, <<normalize_L2(q)>>) ELSE index
         /\ calls' = [calls EXCEPT ![s] =
              IF ~index.built
              THEN [pc |-> "done", q |-> q, k |-> k, results |-> <<>>]
              ELSE [pc |-> "searching", q |-> q, k |-> k,
                    hits |-> index_search(index, normalize_L2(q), k, tieRule)]]
    /\ UNCHANGED <<notStore, chunks, disk, ret, tieRule, persisted>>

\* search as the two steps a concurrent caller takes: the FAISS search under
\* the released interpreter lock, then the loop that reads self.chunks.
search_call(s) ==
    /\ calls[s].pc \in {"idle", "done"}
    /\ \E q \in Queries, k \in 1..MaxK :
         calls' = [calls EXCEPT ![s] =
            IF ~index.built
            THEN [pc |-> "done", q |-> q, k |-> k, results |-> <<>>]
            ELSE [pc |-> "searching", q |-> q, k |-> k,
                  hits |-> index_search(index, normalize_L2(q), k, tieRule)]]
    /\ UNCHANGED <<notStore, index, chunks, disk, ret, tieRule, persisted>>

search_return(s) ==
    /\ calls[s].pc = "searching"
    /\ calls' = [calls EXCEPT ![s] =
            [pc |-> "done", q |-> calls[s].q, k |-> calls[s].k,
             results |-> collect(chunks, calls[s].hits)]]
    /\ UNCHANGED <<notStore, index, chunks, disk, ret, tieRule, persisted>>

----------------------------------------------------------------------------
(* Specifications *)

\* One store and one caller: every call runs to its end before the next.
Next ==
    \/ new_store
    \/ create_index
    \/ save_index
    \/ load_index
    \/ search

Spec == Init /\ [][Next]_vars

\* Embedding rows of the serving scenario: equal rows, parallel rows, rows of
\* equal inner product with a query, and the zero vector of the fallback.
SearchVecs ==
    {Vec(dimension, 3, 0), Vec(dimension, 0, 2), Vec(dimension, 1, 1),
     Vec(dimension, 0, 0)}

SearchArrays == UNION {[1..n -> SearchVecs] : n \in 0..MaxN}

\* Serving: a store as FAISSVectorStore() or as create_index left it, then
\* held read-only while the sessions search it concurrently.
InitSearch ==
    /\ \/ /\ index = None
          /\ chunks = <<>>
       \/ \E E \in SearchArrays, m \in 0..MaxN :
            LET r == created(<<>>, E, dimension, ChunkList("kb1", m))
            IN  /\ index = r.index
                /\ chunks = r.chunks
    /\ disk = [faiss_index |-> Absent, chunks_pkl |-> Absent]
    /\ ret = [op |-> "__init__", outcome |-> "return"]
    /\ tieRule \in TieRules
    /\ calls = [s \in Sessions |-> [pc |-> "idle"]]
    /\ persisted = Nothing
    /\ othersIdle

NextSearch ==
    \E s \in Sessions :
        \/ search_call(s)
        \/ search_return(s)

SpecSearch == InitSearch /\ [][NextSearch]_vars

----------------------------------------------------------------------------
(* Properties of the store: create_index, save_index, load_index *)

Min(a, b) == IF a < b THEN a ELSE b

\* The normalised embedding the provider supplies for a chunk.
EmbeddingOf(c) == normalize_L2(Embed(c.kb, c.chunk_id + 1, dimension))

\* The stores one create_index call on a fresh store can leave.
CreatedStores ==
    {created(<<>>, Embeddings(kb, n, dimension), dimension, ChunkList(kb, m)) :
        kb \in KBs, n \in 0..MaxN, m \in 0..MaxN}

\* C1: in every reachable state of the store the number of stored vectors
\* equals the number of stored chunks, and the vector at position i is the
\* embedding supplied for the chunk at position i.
C1_Correspondence ==
    LET st == get_stats(index, chunks)
    IN  /\ st.total_vectors = st.total_chunks
        /\ \A i \in 1..Len(chunks) : index.xb[i] = EmbeddingOf(chunks[i])

\* C2: round trip.  While the directory holds what a completed save_index
\* wrote, load_index returns True and the store then holds the chunk list and
\* the vectors of the store that was persisted, in the same order, and
\* get_stats reports the same three numbers.
C2_RoundTrip ==
    (ret.op = "load_index" /\ persisted.some) =>
        /\ ret.outcome = "return"
        /\ ret.value = TRUE
        /\ chunks = persisted.chunks
        /\ index = persisted.index
        /\ get_stats(index, chunks) = get_stats(persisted.index, persisted.chunks)

\* A load_index that restored a persisted store of MaxN distinct vectors and
\* MaxN chunks.
C2_Witness ==
    /\ ret.op = "load_index"
    /\ persisted.some
    /\ ret.value = TRUE
    /\ Len(chunks) = MaxN
    /\ get_stats(index, chunks).total_vectors = MaxN
    /\ index.xb[1] # index.xb[MaxN]

\* C3: create_index called with a number of embeddings different from the
\* number of chunks ends in an error.
C3_MismatchIsFatal ==
    (ret.op = "create_index" /\ ret.mismatch) => ret.outcome = "raise"

\* C4: save_index on a store whose index was never built or loaded raises.
C4_SaveUnbuiltRaises ==
    (ret.op = "save_index" /\ ~index.built) => ret.outcome = "raise"

\* C5: the two artifacts are replaced together: a load_index that succeeds
\* never pairs the vectors of one build with the chunk list of another, so
\* the store it leaves is one that a single create_index call leaves.
C5_ArtifactsPaired ==
    (ret.op = "load_index" /\ ret.value = TRUE) =>
        [index |-> index, chunks |-> chunks, outcome |-> "return"] \in CreatedStores

----------------------------------------------------------------------------
(* Properties of search *)

\* C7: search(q, k) returns at most k results and at most total_vectors
\* results, and the empty list, without raising, on a store without an index.
C7_KBound ==
    ret.op = "search" =>
        /\ ret.outcome = "return"
        /\ Len(ret.results) <= ret.k
        /\ Len(ret.results) <= get_stats(index, chunks).total_vectors
        /\ ~index.built => ret.results = <<>>

\* A search for more vectors than the index holds, on a store that has
\* chunks: the padding labels were dropped.
C7_Witness ==
    /\ ret.op = "search"
    /\ index.built
    /\ ntotal(index) >= 1
    /\ ntotal(index) < ret.k
    /\ Len(chunks) >= ntotal(index)
    /\ Len(ret.results) = ntotal(index)

\* C8: with a built or loaded index, search(q, k) returns exactly
\* min(k, total_vectors) results.
C8_ExactCount ==
    (ret.op = "search" /\ index.built) =>
        Len(ret.results) = Min(ret.k, ntotal(index))

\* The inner product of stored vector p (from 1) with the normalised query q.
ScoreAt(p, q) == InnerProduct(index.xb[p], normalize_L2(q))

\* The position (from 1) in the chunk list that a returned chunk names.
PosOf(result) == result[1].chunk_id + 1

\* The positions a list of results names.
Returned(res) == {PosOf(res[r]) : r \in 1..Len(res)}

\* Every result is a chunk of the list at a position that has a vector, next
\* to that vector's inner product with the query; no position comes twice.
WellFormed(res, q) ==
    /\ \A r \in 1..Len(res) :
          /\ PosOf(res[r]) \in 1..Min(ntotal(index), Len(chunks))
          /\ res[r][1] = chunks[PosOf(res[r])]
          /\ res[r][2] = ScoreAt(PosOf(res[r]), q)
    /\ Cardinality(Returned(res)) = Len(res)

\* C9 as stated, on a store that holds one chunk per vector: the results are
\* the min(k, total_vectors) stored vectors of highest inner product with the
\* normalised query, in descending order of score, and of two vectors of equal
\* score the one at the lower position is ranked first.
C9_TiesByPosition ==
    \A s \in Sessions :
        (calls[s].pc = "done" /\ index.built /\ Len(chunks) = ntotal(index)) =>
            LET res == calls[s].results
                q   == calls[s].q
                Better(j, i) ==
                    \/ ScoreLess(ScoreAt(i, q), ScoreAt(j, q))
                    \/ ScoreAt(i, q) = ScoreAt(j, q) /\ j < i
            IN  /\ Len(res) = Min(calls[s].k, ntotal(index))
                /\ WellFormed(res, q)
                /\ \A r \in 1..Len(res) :
                      Cardinality({j \in 1..ntotal(index) : Better(j, PosOf(res[r]))})
                          = r - 1

\* C9 amended: there are min(k, total_vectors) stored vectors, none of lower
\* inner product with the normalised query than a vector left out, such that
\* the results are those of them whose position has a chunk, each with its
\* inner product, in descending order of score; nothing is said of the order
\* of equal scores.
C9_TopKDescending ==
    \A s \in Sessions :
        (calls[s].pc = "done" /\ index.built) =>
            LET res == calls[s].results
                q   == calls[s].q
                n   == ntotal(index)
            IN  /\ WellFormed(res, q)
                /\ \A r \in 1..(Len(res) - 1) : ~ScoreLess(res[r][2], res[r + 1][2])
                /\ \E H \in SUBSET (1..n) :
                      /\ Cardinality(H) = Min(calls[s].k, n)
                      /\ \A p \in H : \A o \in (1..n) \ H :
                            ~ScoreLess(ScoreAt(p, q), ScoreAt(o, q))
                      /\ Returned(res) = {p \in H : p <= Len(chunks)}

\* A finished search on a store with one chunk per vector that returned two
\* vectors of equal score, the one at the higher position first.
C9_Witness ==
    \E s \in Sessions :
        /\ calls[s].pc = "done"
        /\ index.built
        /\ Len(chunks) = ntotal(index)
        /\ Len(calls[s].results) = 2
        /\ calls[s].results[1][2] = calls[s].results[2][2]
        /\ PosOf(calls[s].results[1]) > PosOf(calls[s].results[2])

\* Two finished searches with the same query and the same k have the same
\* ordered result.
SameResult ==
    \A s, t \in Sessions :
        (/\ calls[s].pc = "done"
         /\ calls[t].pc = "done"
         /\ calls[s].q = calls[t].q
         /\ calls[s].k = calls[t].k) => calls[s].results = calls[t].results

\* C10: no step of a search, of whichever session and however the sessions
\* interleave, changes the index, the chunk list or the directory, and
\* searches with the same q and k return the same ordered result.
C10_SearchReadOnly ==
    [][/\ index' = index
       /\ chunks' = chunks
       /\ disk' = disk
       /\ SameResult']_vars

\* Two sessions finished the same search with two results, on an index that
\* holds equal scores.
C10_Witness ==
    /\ calls["s1"].pc = "done"
    /\ calls["s2"].pc = "done"
    /\ calls["s1"].q = calls["s2"].q
    /\ calls["s1"].k = calls["s2"].k
    /\ Len(calls["s1"].results) = 2
    /\ calls["s1"].results[1][2] = calls["s1"].results[2][2]

----------------------------------------------------------------------------
(* DocumentChunker (src/src/chunking.py)                                   *)
(*                                                                         *)
(* Texts.  A document is its length and the positions (from 0, as Python   *)
(* counts) of the characters the chunker's code tells apart: '.', '!' and  *)
(* '?', newlines, other whitespace, and the first character of every       *)
(* occurrence of "Section <digit>:".  Every other character is a letter.   *)
(* A string cut from a document is the span [lo, hi) it was cut from.      *)

MaxDots == 2    \* most sentence terminators in one document

CHUNK_SIZE == 500
CHUNK_OVERLAP == 50
lookback == 100         \* end - 100 in chunk_by_size
header_len == 10        \* len("Section 1:")

DocumentChunker(size, ovl) == [chunk_size |-> size, overlap |-> ovl]

Max(a, b) == IF a > b THEN a ELSE b

InHeader(d, p) == \E h \in d.hdrs : h <= p /\ p < h + header_len

\* str.isspace of the character at p.
IsSpace(d, p) == p \in d.blanks \/ p \in d.nls

Span(lo, hi) == [lo |-> lo, hi |-> hi]

\* text[lo:hi].strip(), as the span that is left; an empty span when the
\* slice is all whitespace.  A slice ends where the text ends.
strip(d, lo, hi) ==
    LET e == IF hi > d.len THEN d.len ELSE hi
        first == CHOOSE p \in lo..Max(lo, e) :
                    /\ p >= e \/ ~IsSpace(d, p)
                    /\ \A q \in lo..(p - 1) : IsSpace(d, q)
    IN  IF first >= e THEN Span(lo, lo)
        ELSE LET last == CHOOSE p \in {e - j : j \in 1..(e - first)} :
                            /\ ~IsSpace(d, p)
                            /\ \A q \in (p + 1)..(e - 1) : IsSpace(d, q)
             IN  Span(first, last + 1)

\* text.rfind(c, a, b) for the text that starts at lo in the document, S
\* being the document's positions of the character c: the highest position of
\* the text in [a, b) that holds c, or -1.
rfind(S, lo, a, b) ==
    LET found == {p - lo : p \in {x \in S : lo + a <= x /\ x < lo + b}}
    IN  IF found = {} THEN -1
        ELSE CHOOSE p \in found : \A q \in found : q <= p

\* Ascending list of a set of positions.
RECURSIVE Ascending(_)
Ascending(S) ==
    IF S = {} THEN <<>>
    ELSE LET m == CHOOSE x \in S : \A y \in S : x <= y
         IN  <<m>> \o Ascending(S \ {m})

\* chunk_by_section: every match of 'Section \d+:' opens a section that runs
\* to the next match or to the end of the text; the sections are stripped and
\* the empty ones left out.  Text before the first match is in no section.
chunk_by_section(d) ==
    LET hs == Ascending(d.hdrs)
        raw == [i \in 1..Len(hs) |->
                  strip(d, hs[i], IF i < Len(hs) THEN hs[i + 1] ELSE d.len)]
    IN  SelectSeq(raw, LAMBDA sp : sp.hi > sp.lo)

\* A raw end that adds the overlap to the chunk size.
raw_end_wide(self, start) == start + self.chunk_size + self.overlap

\* end = start + self.chunk_size
raw_end(self, start) == start + self.chunk_size

\* An index of a slice or of rfind as Python reads it in a text of n
\* characters: a negative one counts from the end of the text, and none
\* lies before the first character.
slice_index(i, n) == IF i >= 0 THEN i ELSE Max(n + i, 0)

\* A window end that also accepts a terminator in the window's first
\* character as the place to cut.
window_end_inclusive(self, d, lo, n, start) ==
    LET end == raw_end(self, start)
        search_start == slice_index(Max(start, end - lookback), n)
        sentence_end ==
            Max(rfind(d.dot, lo, search_start, end),
                Max(rfind(d.bang, lo, search_start, end),
                    rfind(d.quest, lo, search_start, end)))
    IN  IF end < n /\ sentence_end >= start THEN sentence_end + 1 ELSE end

\* The end of the window at start, in the text d[lo : lo + n]: the raw end,
\* or just after the last '.', '!' or '?' of the last `lookback` characters
\* when the raw end lies before the end of the text.
window_end(self, d, lo, n, start) ==
    LET end == raw_end(self, start)
        search_start == slice_index(Max(start, end - lookback), n)
        sentence_end ==
            Max(rfind(d.dot, lo, search_start, end),
                Max(rfind(d.bang, lo, search_start, end),
                    rfind(d.quest, lo, search_start, end)))
    IN  IF end < n /\ sentence_end > start THEN sentence_end + 1 ELSE end

\* An advance by the step chunk_size - overlap, whatever the cut.
next_start_by_size(self, start, end, n) ==
    IF end < n THEN start + self.chunk_size - self.overlap ELSE n

\* An advance to the cut, without overlap.
next_start_at_end(self, start, end, n) ==
    IF end < n THEN end ELSE n

\* start = end - self.overlap if end < text_length else text_length
next_start(self, start, end, n) ==
    IF end < n THEN end - self.overlap ELSE n

\* The iterations of the loop of chunk_by_size over d[lo : lo + n], as the
\* list of (start, end) they slice, positions counted within the text.
RECURSIVE windows_from(_, _, _, _, _)
windows_from(self, d, lo, n, start) ==
    IF start >= n THEN <<>>
    ELSE LET end == window_end(self, d, lo, n, start)
         IN  <<Span(start, end)>>
                \o windows_from(self, d, lo, n, next_start(self, start, end, n))

windows(self, d, lo, hi) == windows_from(self, d, lo, hi - lo, 0)

\* text[start:end].strip() of a window w of the text d[lo:hi], as the span
\* of the document that is left.
chunk_of(d, lo, hi, w) == strip([d EXCEPT !.len = hi], lo + w.lo, lo + w.hi)

\* The windows whose chunk is not empty: `if chunk:`.
emitted(self, d, lo, hi) ==
    SelectSeq(windows(self, d, lo, hi),
              LAMBDA w : chunk_of(d, lo, hi, w).hi > chunk_of(d, lo, hi, w).lo)

\* chunk_by_size(text) for text = d[lo:hi]: every window stripped, the empty
\* ones left out; each chunk as the span of the document it holds.
chunk_by_size(self, d, lo, hi) ==
    LET w == emitted(self, d, lo, hi)
    IN  [i \in 1..Len(w) |-> chunk_of(d, lo, hi, w[i])]

\* The section title: the first line of the section.
section_title(d, sec) ==
    LET nl == {p \in d.nls : sec.lo <= p /\ p < sec.hi}
    IN  Span(sec.lo, IF nl = {} THEN sec.hi
                     ELSE CHOOSE p \in nl : \A q \in nl : p <= q)

\* A chunk dict numbered by its place in the whole list.
chunk_dict_global(chunk_id, sp, title, chunk_idx) ==
    [chunk_id |-> chunk_id, text |-> sp, section |-> title,
     chunk_index |-> chunk_id, char_count |-> sp.hi - sp.lo]

\* The dict appended for a chunk.
chunk_dict(chunk_id, sp, title, chunk_idx) ==
    [chunk_id |-> chunk_id, text |-> sp, section |-> title,
     chunk_index |-> chunk_idx, char_count |-> sp.hi - sp.lo]

\* The loop over the sections from the idx-th on, appending to chunks.
RECURSIVE section_loop(_, _, _, _, _)
section_loop(self, d, sections, idx, acc) ==
    IF idx > Len(sections) THEN acc
    ELSE LET section == sections[idx]
             title == section_title(d, section)
             section_chunks ==
                IF section.hi - section.lo > self.chunk_size
                THEN chunk_by_size(self, d, section.lo, section.hi)
                ELSE <<section>>
             added == [j \in 1..Len(section_chunks) |->
                         chunk_dict(Len(acc) + j - 1, section_chunks[j],
                                    title, j - 1)]
         IN  section_loop(self, d, sections, idx + 1, acc \o added)

\* create_chunks_with_metadata(text): by section when there are sections,
\* else the whole text by size under the section "General".
create_chunks_with_metadata_of(self, d) ==
    LET sections == chunk_by_section(d)
    IN  IF sections # <<>>
        THEN section_loop(self, d, sections, 1, <<>>)
        ELSE LET simple_chunks == chunk_by_size(self, d, 0, d.len)
             IN  [j \in 1..Len(simple_chunks) |->
                    chunk_dict(j - 1, simple_chunks[j], "General", j - 1)]

(* Documents *)

Lens == {40, 620, 1200}

HeaderChoices == {{}, {0}, {20}, {0, 600}, {20, 600}}

NewlineChoices == {{}, {19, 599}, {10, 19, 599}}

BlankChoices == {{}, {449, 450}, 450..949}

DotAt == {380, 499}
BangAt == {420, 900}
QuestAt == {800}

Docs ==
    LET Raw == {[len |-> n, hdrs |-> H, nls |-> N \cap (0..(n - 1)),
                 blanks |-> B \cap (0..(n - 1)),
                 dot |-> T \cap DotAt, bang |-> T \cap BangAt,
                 quest |-> T \cap QuestAt] :
                    n \in Lens, H \in HeaderChoices, N \in NewlineChoices,
                    B \in BlankChoices,
                    T \in {X \in SUBSET (DotAt \cup BangAt \cup QuestAt) :
                              Cardinality(X) <= MaxDots}}
        Marks(d) == d.dot \cup d.bang \cup d.quest
    IN  {d \in Raw :
            /\ \A h \in d.hdrs : h + header_len <= d.len
            /\ \A p \in Marks(d) : p < d.len
            /\ \A p \in Marks(d) \cup d.nls \cup d.blanks : ~InHeader(d, p)
            /\ d.nls \cap d.blanks = {}
            /\ Marks(d) \cap (d.nls \cup d.blanks) = {}
            /\ ~IsSpace(d, 0) /\ ~IsSpace(d, d.len - 1)}

(* The chunker as a state machine *)

notChunker == <<index, chunks, disk, ret, tieRule, calls, persisted,
                history, turn, fmt, batch, cleaned, log>>

\* chunk_by_size(text) on the whole document.
chunk_by_size_call ==
    /\ chunker.pc = "new"
    /\ chunker' = [pc |-> "sized", self |-> chunker.self,
                   windows |-> windows(chunker.self, text, 0, text.len),
                   emitted |-> emitted(chunker.self, text, 0, text.len),
                   chunks |-> chunk_by_size(chunker.self, text, 0, text.len)]
    /\ UNCHANGED <<notChunker, text>>

\* chunk_document(text): create_chunks_with_metadata on the whole document.
create_chunks_with_metadata ==
    /\ chunker.pc = "new"
    /\ chunker' = [pc |-> "done", self |-> chunker.self,
                   sections |-> chunk_by_section(text),
                   chunks |-> create_chunks_with_metadata_of(chunker.self, text)]
    /\ UNCHANGED <<notChunker, text>>

\* A normalised document and a chunker of the configured size and overlap.
InitChunk ==
    /\ index = None
    /\ chunks = <<>>
    /\ disk = [faiss_index |-> Absent, chunks_pkl |-> Absent]
    /\ ret = [op |-> "__init__", outcome |-> "return"]
    /\ tieRule \in {"position"}
    /\ calls = [s \in Sessions |-> [pc |-> "idle"]]
    /\ persisted = Nothing
    /\ history = <<>>
    /\ turn = Idle
    /\ fmt = Idle
    /\ batch = Idle
    /\ cleaned = Idle
    /\ log = <<>>
    /\ text \in Docs
    /\ chunker = [pc |-> "new",
                  self |-> DocumentChunker(CHUNK_SIZE, CHUNK_OVERLAP)]

NextChunk ==
    \/ chunk_by_size_call
    \/ create_chunks_with_metadata

SpecChunk == InitChunk /\ [][NextChunk]_vars

----------------------------------------------------------------------------
(* Properties of the chunker *)

\* The position p of the document is the first of a line.
LineStart(p) == p = 0 \/ (p - 1) \in text.nls

\* C12 as stated: every character that is not whitespace, of a document whose
\* every 'Section <digits>:' begins a line as the normaliser leaves it, lies
\* in the span of at least one chunk that create_chunks_with_metadata
\* returned.
C12_Coverage ==
    (chunker.pc = "done" /\ \A h \in text.hdrs : LineStart(h)) =>
        \A p \in 0..(text.len - 1) :
            ~IsSpace(text, p) =>
                \E j \in 1..Len(chunker.chunks) :
                    /\ chunker.chunks[j].text.lo <= p
                    /\ p < chunker.chunks[j].text.hi

C14_Ordering ==
    chunker.pc = "done" =>
        LET c == chunker.chunks
        IN  \A j \in 1..Len(c) :
                /\ c[j].chunk_id = j - 1
                /\ c[j].chunk_index =
                      IF j > 1 /\ c[j - 1].section = c[j].section
                      THEN c[j - 1].chunk_index + 1
                      ELSE 0

\* A document of two sections, the second one split into several chunks.
C14_Witness ==
    /\ chunker.pc = "done"
    /\ Len(chunker.sections) = 2
    /\ \E j \in 2..Len(chunker.chunks) :
          /\ chunker.chunks[j].section # chunker.chunks[1].section
          /\ chunker.chunks[j].chunk_index = 1

\* A document that is one section of 1200 characters.
OneSection1200 == text.len = 1200 /\ text.hdrs = {0}

\* C15 as stated: a 1200-character section yields exactly 3 chunks of at most
\* 500 characters, the third ending where the section ends; no chunk of any
\* document is longer than chunk_size.
C15_ThreeChunks ==
    chunker.pc = "done" =>
        LET c == chunker.chunks
        IN  /\ \A j \in 1..Len(c) : c[j].char_count <= chunker.self.chunk_size
            /\ OneSection1200 =>
                  /\ Len(c) = 3
                  /\ c[3].text.hi = text.len

\* C15 amended: a 1200-character section is scanned in exactly 3 windows of
\* at most 500 characters, the third reaching the end of the section; it
\* yields one chunk for every window that is not all whitespace (3, or 2 when
\* the second window is whitespace), the last ending where the section ends;
\* no chunk of any document is longer than chunk_size.
C15_ThreeWindows ==
    chunker.pc = "done" =>
        LET c == chunker.chunks
            w == windows(chunker.self, text, 0, text.len)
            blank(i) == chunk_of(text, 0, text.len, w[i]).hi
                            = chunk_of(text, 0, text.len, w[i]).lo
        IN  /\ \A j \in 1..Len(c) : c[j].char_count <= chunker.self.chunk_size
            /\ OneSection1200 =>
                  /\ Len(w) = 3
                  /\ \A i \in 1..3 :
                        Min(w[i].hi, text.len) - w[i].lo
                            <= chunker.self.chunk_size
                  /\ w[3].hi >= text.len
                  /\ ~blank(1) /\ ~blank(3)
                  /\ Len(c) = IF blank(2) THEN 2 ELSE 3
                  /\ c[Len(c)].text.hi = text.len

\* A 1200-character section was chunked, its first window cut after a
\* sentence terminator.
C15_Witness ==
    /\ chunker.pc = "done"
    /\ OneSection1200
    /\ Len(chunker.chunks) = 3
    /\ chunker.chunks[1].text.hi < chunker.self.chunk_size
    /\ chunker.chunks[3].text.hi = 1200

\* The window w of the scan yielded a chunk.
Emitted(w) == \E i \in 1..Len(chunker.emitted) : chunker.emitted[i] = w

\* C19 as stated: after a window that yielded a chunk and is not the last,
\* the next window starts chunk_size - overlap after the start of that one.
C19_AdvanceBySize ==
    chunker.pc = "sized" =>
        LET w == chunker.windows
        IN  \A i \in 1..(Len(w) - 1) :
                Emitted(w[i]) =>
                    w[i + 1].lo = w[i].lo + chunker.self.chunk_size
                                          - chunker.self.overlap

\* The text has one of '.', '!', '?' in the last `lookback` characters of the
\* window of chunk_size characters at start.
TerminatorNear(start) ==
    \E p \in text.dot \cup text.bang \cup text.quest :
        /\ p >= start + chunker.self.chunk_size - lookback
        /\ p < start + chunker.self.chunk_size

\* C19 amended: after a window that is not the last, the next window starts
\* overlap characters before the place the window was cut; that is
\* chunk_size - overlap after the window's start when none of '.', '!', '?'
\* lies in its last 100 characters, and earlier by less than 100 when the
\* window was cut after such a character.
C19_AdvanceFromCut ==
    chunker.pc = "sized" =>
        LET w == chunker.windows
            size == chunker.self.chunk_size
        IN  \A i \in 1..(Len(w) - 1) :
                /\ w[i + 1].lo = w[i].hi - chunker.self.overlap
                /\ w[i].hi <= w[i].lo + size
                /\ w[i].hi > w[i].lo + size - lookback
                /\ TerminatorNear(w[i].lo) <=> w[i].hi - 1 \in
                        text.dot \cup text.bang \cup text.quest
                /\ ~TerminatorNear(w[i].lo) => w[i].hi = w[i].lo + size

\* chunk_by_size cut its first window after a sentence terminator, short of
\* chunk_size characters, and went on to a second window.
C19_Witness ==
    /\ chunker.pc = "sized"
    /\ Len(chunker.windows) >= 2
    /\ Emitted(chunker.windows[1])
    /\ chunker.windows[1].hi < chunker.self.chunk_size

\* C20 as stated: every section begins at a line that begins with
\* 'Section <digits>:', there is one section for every such line and none
\* for an occurrence in the middle of a line, and the label of a section is
\* its heading line.
C20_SectionsAtLineStart ==
    chunker.pc = "done" =>
        LET secs == chunker.sections
        IN  /\ \A i \in 1..Len(secs) : LineStart(secs[i].lo)
            /\ {secs[i].lo : i \in 1..Len(secs)}
                  = {h \in text.hdrs : LineStart(h)}
            /\ \A j \in 1..Len(chunker.chunks) :
                  secs # <<>> =>
                     \E i \in 1..Len(secs) :
                        chunker.chunks[j].section
                            = section_title(text, secs[i])

----------------------------------------------------------------------------
(* ContextRetriever.format_context (src/src/retriever.py)                  *)
(*                                                                         *)
(* A string is the sequence of its pieces: "\n" for a line break, and one  *)
(* piece for every stretch of text the code does not look into.            *)

\* str(i) of the ordinals that occur.
str(i) == <<"0", "1", "2", "3", "4", "5", "6", "7", "8", "9">>[i + 1]

\* sep.join(parts)
RECURSIVE join(_, _)
join(sep, parts) ==
    IF parts = <<>> THEN <<>>
    ELSE IF Len(parts) = 1 THEN parts[1]
    ELSE parts[1] \o sep \o join(sep, Tail(parts))

\* chunk.get('section', 'N/A')
get_section(chunk) ==
    IF "section" \in DOMAIN chunk THEN chunk.section ELSE <<"N/A">>

\* The four parts of a chunk, the ordinals counted from 0.
parts_of_from_zero(idx, chunk) ==
    << <<"[Context ", str(idx - 1), "]">>,
       <<"Section: ">> \o get_section(chunk),
       chunk.text,
       <<>> >>

\* The four parts appended for the idx-th chunk.
parts_of(idx, chunk) ==
    << <<"[Context ", str(idx), "]">>,
       <<"Section: ">> \o get_section(chunk),
       chunk.text,
       <<>> >>

\* The loop of format_context over enumerate(chunks, 1) from the idx-th chunk.
RECURSIVE context_parts(_, _)
context_parts(chs, idx) ==
    IF idx > Len(chs) THEN <<>>
    ELSE parts_of(idx, chs[idx]) \o context_parts(chs, idx + 1)

format_context_of(chs) == join(<<"\n">>, context_parts(chs, 1))

(* Chunks to format *)

FmtTexts == {<<"a">>, <<"b">>, <<"c", "\n", "\n", "d">>}

FmtSections == {<<"General">>, <<"Section 1: Returns">>}

FmtChunks ==
    [text : FmtTexts, section : FmtSections] \cup [text : FmtTexts]

FmtLists == UNION {[1..n -> FmtChunks] : n \in 0..MaxK}

notFmt == <<index, chunks, disk, ret, tieRule, calls, persisted,
            history, turn, text, chunker, batch, cleaned, log>>

\* format_context(chunks)
format_context ==
    /\ fmt.pc = "new"
    /\ fmt' = [pc |-> "done", chunks |-> fmt.chunks,
               out |-> format_context_of(fmt.chunks)]
    /\ UNCHANGED notFmt

\* The next list of retrieved chunks.
chunks_retrieved ==
    /\ fmt.pc = "done"
    /\ \E chs \in FmtLists : fmt' = [pc |-> "new", chunks |-> chs]
    /\ UNCHANGED notFmt

InitFmt ==
    /\ index = None
    /\ chunks = <<>>
    /\ disk = [faiss_index |-> Absent, chunks_pkl |-> Absent]
    /\ ret = [op |-> "__init__", outcome |-> "return"]
    /\ tieRule \in {"position"}
    /\ calls = [s \in Sessions |-> [pc |-> "idle"]]
    /\ persisted = Nothing
    /\ history = <<>>
    /\ turn = Idle
    /\ text = Idle
    /\ chunker = Idle
    /\ batch = Idle
    /\ cleaned = Idle
    /\ log = <<>>
    /\ \E chs \in FmtLists : fmt = [pc |-> "new", chunks |-> chs]

NextFmt ==
    \/ format_context
    \/ chunks_retrieved

SpecFmt == InitFmt /\ [][NextFmt]_vars

\* The block of the i-th chunk: its label with the ordinal i, its section and
\* its text, each ended by a line break.
Block(i, c) ==
    <<"[Context ", str(i), "]", "\n", "Section: ">> \o get_section(c)
        \o <<"\n">> \o c.text \o <<"\n">>

\* The blocks of the chunks from the i-th on, a blank line between two.
RECURSIVE Blocks(_, _)
Blocks(chs, i) ==
    IF i > Len(chs) THEN <<>>
    ELSE IF i = Len(chs) THEN Block(i, chs[i])
    ELSE Block(i, chs[i]) \o <<"\n">> \o Blocks(chs, i + 1)

\* C16: the string format_context returns is the blocks of the chunks in the
\* order given, the i-th (from 1) with ordinal i, the chunk's section and the
\* chunk's text, a blank line between two blocks; it holds as many labels as
\* there are chunks, and is empty for no chunks.
C16_BlocksInOrder ==
    fmt.pc = "done" =>
        /\ fmt.out = Blocks(fmt.chunks, 1)
        /\ Cardinality({p \in 1..Len(fmt.out) : fmt.out[p] = "[Context "})
              = Len(fmt.chunks)
        /\ fmt.chunks = <<>> => fmt.out = <<>>

\* Two chunks were formatted, of different sections and texts, the second
\* one's text with a blank line in it.
C16_Witness ==
    /\ fmt.pc = "done"
    /\ Len(fmt.chunks) = 2
    /\ fmt.chunks[1].text = <<"a">>
    /\ fmt.chunks[2].text = <<"c", "\n", "\n", "d">>
    /\ "section" \in DOMAIN fmt.chunks[1]
    /\ "section" \notin DOMAIN fmt.chunks[2]

----------------------------------------------------------------------------
(* EmbeddingGenerator.generate_batch_embeddings (src/src/embeddings.py)    *)

MaxTexts == 3   \* most texts handed to generate_batch_embeddings

max_retries == 3

\* What one call of generate_embedding does: it returns the embedding, or
\* raises a rate-limit error ("429" or "quota" in its message), or raises
\* another error.
Attempts == {"ok", "rate_limit", "error"}

\* A row of the list `embeddings`: the text it was appended for, whether it is
\* np.zeros(768), and how many calls of generate_embedding had been made for
\* that text when it was appended.
Row(t, zeros, made) == [text |-> t, zeros |-> zeros, attempts |-> made]

\* The state of the loops after one more pass of the while loop for the text
\* b.i, the call of generate_embedding ending as o: the try / except, and,
\* when the while loop is left, the test after it and the step to the next
\* text.
after_attempt(b, o) ==
    LET retry_count == IF o = "ok" THEN b.retry_count ELSE b.retry_count + 1
        made == b.retry_count + 1
        in_loop ==
            IF o = "ok" THEN Append(b.embeddings, Row(b.i, FALSE, made))
            ELSE IF o = "error" THEN Append(b.embeddings, Row(b.i, TRUE, made))
            ELSE b.embeddings
        left == o \in {"ok", "error"} \/ retry_count >= max_retries
        after_loop ==
            IF retry_count >= max_retries
            THEN Append(in_loop, Row(b.i, TRUE, made))
            ELSE in_loop
    IN  IF ~left THEN [b EXCEPT !.retry_count = retry_count]
        ELSE [b EXCEPT !.retry_count = 0,
                       !.embeddings = after_loop,
                       !.i = b.i + 1,
                       !.pc = IF b.i + 1 > b.n THEN "collected" ELSE "embedding"]

notBatch == <<index, chunks, disk, ret, tieRule, calls, persisted,
              history, turn, text, chunker, fmt, cleaned, log>>

\* One call of generate_embedding inside the retry loop, and what follows it.
generate_embedding(o) ==
    /\ batch.pc = "embedding"
    /\ batch' = after_attempt(batch, o)
    /\ UNCHANGED notBatch

\* return np.array(embeddings)
return_embeddings ==
    /\ batch.pc = "collected"
    /\ batch' = [batch EXCEPT !.pc = "returned"]
    /\ UNCHANGED notBatch

\* generate_batch_embeddings(texts) is entered with n texts.
InitBatch ==
    /\ index = None
    /\ chunks = <<>>
    /\ disk = [faiss_index |-> Absent, chunks_pkl |-> Absent]
    /\ ret = [op |-> "__init__", outcome |-> "return"]
    /\ tieRule \in {"position"}
    /\ calls = [s \in Sessions |-> [pc |-> "idle"]]
    /\ persisted = Nothing
    /\ history = <<>>
    /\ turn = Idle
    /\ text = Idle
    /\ chunker = Idle
    /\ fmt = Idle
    /\ cleaned = Idle
    /\ log = <<>>
    /\ \E n \in 0..MaxTexts :
          batch = [pc |-> IF n = 0 THEN "collected" ELSE "embedding",
                   n |-> n, i |-> 1, retry_count |-> 0, embeddings |-> <<>>]

NextBatch ==
    \/ \E o \in Attempts : generate_embedding(o)
    \/ return_embeddings

SpecBatch == InitBatch /\ [][NextBatch]_vars

\* C17 as stated: a zero vector is in the list only for a text for which
\* max_retries calls of generate_embedding had been made when it was
\* appended.
C17_ZeroAfterRetries ==
    \A r \in 1..Len(batch.embeddings) :
        batch.embeddings[r].zeros => batch.embeddings[r].attempts >= max_retries

\* C23: the array generate_batch_embeddings returns has one row for every
\* text, the row at position i being the one appended for texts[i].
C23_OneRowPerText ==
    batch.pc = "returned" =>
        /\ Len(batch.embeddings) = batch.n
        /\ \A r \in 1..Len(batch.embeddings) : batch.embeddings[r].text = r

\* C25: a load_index call that returns False leaves the index and the chunk
\* list of the store as they were before the call.
C25_FailedLoadKeepsStore ==
    [][(ret'.op = "load_index" /\ ret'.value = FALSE)
          => (index' = index /\ chunks' = chunks)]_vars

----------------------------------------------------------------------------
(* Self-retrieval *)

\* The inner product of a unit vector with itself.
One == [sgn |-> 1, num |-> 1, den |-> 1]

\* The positions (from 1) that hold a vector and a chunk, the vector being
\* the normalised query q: the chunks whose own embedding q is.
OwnEmbedding(q) ==
    {p \in 1..Min(ntotal(index), Len(chunks)) : index.xb[p] = normalize_L2(q)}

\* C18 as stated: a search with a chunk's own embedding returns that chunk
\* first, with score 1.
C18_SelfRetrieval ==
    \A s \in Sessions :
        (calls[s].pc = "done" /\ index.built) =>
            \A p \in OwnEmbedding(calls[s].q) :
                /\ calls[s].results # <<>>
                /\ calls[s].results[1][1] = chunks[p]
                /\ calls[s].results[1][2] = One

\* C18 amended: a search with a chunk's own embedding, not the zero vector,
\* returns first, with score 1, a chunk whose embedding has the direction of
\* that embedding: the chunk itself when no other chunk has an embedding of
\* the same direction.
C18_SelfRetrievalUpToTies ==
    \A s \in Sessions :
        (calls[s].pc = "done" /\ index.built) =>
            LET q == calls[s].q
                res == calls[s].results
            IN  \A p \in OwnEmbedding(q) :
                    Dot(normalize_L2(q), normalize_L2(q)) # 0 =>
                        /\ res # <<>>
                        /\ res[1][2] = One
                        /\ PosOf(res[1]) \in OwnEmbedding(q)
                        /\ res[1][1] = chunks[PosOf(res[1])]
                        /\ OwnEmbedding(q) = {p} => res[1][1] = chunks[p]

\* A finished search with the embedding of a chunk that shares it with
\* another chunk: the other chunk came first.
C18_Witness ==
    \E s \in Sessions :
        /\ calls[s].pc = "done"
        /\ index.built
        /\ Len(chunks) = ntotal(index)
        /\ \E p \in OwnEmbedding(calls[s].q) :
              /\ calls[s].results # <<>>
              /\ calls[s].results[1][1] # chunks[p]
              /\ calls[s].results[1][2] = One

----------------------------------------------------------------------------
(* RAGPipeline and its front ends (src/src/rag_pipeline.py, src/app.py,    *)
(* src/cli_app.py, src/evaluate.py)                                        *)

MaxTurns == 2   \* most turns recorded in the conversation

top_k == 3          \* RAGPipeline(vector_store, top_k = 3)
max_history == 10   \* ConversationManager(max_history = 10)

UserQueries == {"q1", "q2"}

\* What generate_response returns: the model's text, or the apology it
\* returns when the call fails.  It does not raise.
Responses == {"answer", "trouble"}

\* What generate_query_embedding does for a query: it raises, or returns a
\* vector of the width of the embedding model in use.
EmbedOutcomes ==
    {[raised |-> TRUE, w |-> 0]} \cup {[raised |-> FALSE, w |-> w] : w \in Widths}

query_embedding(user_query, w) ==
    IF user_query = "q1" THEN Vec(w, 1, 0) ELSE Vec(w, 2, 2)

\* A trim that keeps the oldest max_history messages.
trim_history_oldest(h) ==
    IF Len(h) > max_history THEN SubSeq(h, 1, max_history) ELSE h

\* self.history = self.history[-self.max_history:]
trim_history(h) ==
    IF Len(h) > max_history
    THEN SubSeq(h, Len(h) - max_history + 1, Len(h))
    ELSE h

add_user_message(h, message) ==
    trim_history(Append(h, [role |-> "user", content |-> message]))

add_assistant_message(h, message) ==
    trim_history(Append(h, [role |-> "assistant", content |-> message]))

\* index.search raises when the query has not the width of the index.
search_raises(idx, q) == idx.built /\ q.w # idx.d

\* retrieve_with_scores(query): the failure, or the results of the search
\* with k = top_k.
retrieve_with_scores(user_query, e) ==
    IF e.raised THEN [failure |-> "embedding"]
    ELSE IF search_raises(index, query_embedding(user_query, e.w))
    THEN [failure |-> "search"]
    ELSE [failure |-> "none",
          results |-> search_result(index, chunks,
                                    query_embedding(user_query, e.w),
                                    top_k, tieRule)]

\* chunks = [chunk for chunk, score in results]
chunks_of(results) == [r \in 1..Len(results) |-> results[r][1]]

scores_of(results) == [r \in 1..Len(results) |-> results[r][2]]

\* The dict query returns from its except branch.
query_error(user_query) ==
    [query |-> user_query, response |-> "error", context_chunks |-> <<>>,
     num_chunks_retrieved |-> 0, error |-> "str(e)"]

\* The dict query_with_scores returns from its except branch.
query_with_scores_error(user_query) ==
    [query |-> user_query, response |-> "error", error |-> "str(e)"]

notPipeline == <<index, chunks, disk, ret, tieRule, calls, persisted,
                 text, chunker, fmt, batch, cleaned, log>>

\* The front ends that call query, and those that call query_with_scores.
QueryCallers == {"cli", "app"}
ScoreCallers == {"app_show_scores", "evaluate"}

\* A query that adds the user message to the history before it retrieves.
query_records_first(fe) ==
    /\ turn.pc \in {"idle", "consumed"}
    /\ Len(history) < 2 * MaxTurns
    /\ \E user_query \in UserQueries, e \in EmbedOutcomes, response \in Responses :
         LET got == retrieve_with_scores(user_query, e)
             template == IF history # <<>> THEN "followup" ELSE "rag"
         IN  IF got.failure # "none"
             THEN /\ turn' = [pc |-> "returned", fe |-> fe, call |-> "query",
                              failure |-> got.failure,
                              result |-> query_error(user_query)]
                  /\ history' = add_user_message(history, user_query)
             ELSE /\ turn' = [pc |-> "returned", fe |-> fe, call |-> "query",
                              failure |-> "none", prompt |-> template,
                              result |->
                                [query |-> user_query, response |-> response,
                                 context_chunks |-> chunks_of(got.results),
                                 num_chunks_retrieved |-> Len(got.results)]]
                  /\ history' = add_assistant_message(
                                    add_user_message(history, user_query),
                                    response)
    /\ UNCHANGED notPipeline

\* RAGPipeline.query(user_query), called by the front end fe.
query(fe) ==
    /\ turn.pc \in {"idle", "consumed"}
    /\ Len(history) < 2 * MaxTurns
    /\ \E user_query \in UserQueries, e \in EmbedOutcomes, response \in Responses :
         LET got == retrieve_with_scores(user_query, e)
             template == IF history # <<>> THEN "followup" ELSE "rag"
         IN  IF got.failure # "none"
             THEN /\ turn' = [pc |-> "returned", fe |-> fe, call |-> "query",
                              failure |-> got.failure,
                              result |-> query_error(user_query)]
                  /\ UNCHANGED history
             ELSE /\ turn' = [pc |-> "returned", fe |-> fe, call |-> "query",
                              failure |-> "none", prompt |-> template,
                              result |->
                                [query |-> user_query, response |-> response,
                                 context_chunks |-> chunks_of(got.results),
                                 num_chunks_retrieved |-> Len(got.results)]]
                  /\ history' = add_assistant_message(
                                    add_user_message(history, user_query),
                                    response)
    /\ UNCHANGED notPipeline

\* RAGPipeline.query_with_scores(user_query), called by the front end fe.
query_with_scores(fe) ==
    /\ turn.pc \in {"idle", "consumed"}
    /\ \E user_query \in UserQueries, e \in EmbedOutcomes, response \in Responses :
         LET got == retrieve_with_scores(user_query, e)
         IN  turn' =
               IF got.failure # "none"
               THEN [pc |-> "returned", fe |-> fe, call |-> "query_with_scores",
                     failure |-> got.failure,
                     result |-> query_with_scores_error(user_query)]
               ELSE [pc |-> "returned", fe |-> fe, call |-> "query_with_scores",
                     failure |-> "none", prompt |-> "rag",
                     result |->
                        [query |-> user_query, response |-> response,
                         context_chunks |-> chunks_of(got.results),
                         relevance_scores |-> scores_of(got.results),
                         num_chunks_retrieved |-> Len(got.results)]]
    /\ UNCHANGED <<notPipeline, history>>

\* The keys of the result that the front end subscripts.
keys_read(fe) ==
    IF fe = "cli" THEN {"response"}
    ELSE IF fe = "evaluate" THEN {"response", "num_chunks_retrieved"}
    ELSE {"response", "context_chunks"}

\* The front end uses the result: a key that is not there raises KeyError.
consume ==
    /\ turn.pc = "returned"
    /\ turn' = [pc |-> "consumed",
                outcome |-> IF keys_read(turn.fe) \subseteq DOMAIN turn.result
                            THEN "shown" ELSE "KeyError"] @@ turn
    /\ UNCHANGED <<notPipeline, history>>

\* A pipeline over a store as load_vector_store returned it.
InitChat ==
    /\ \E kb \in KBs, n \in 0..MaxN :
          LET r == created(<<>>, Embeddings(kb, n, dimension), dimension,
                           ChunkList(kb, n))
          IN  /\ index = r.index
              /\ chunks = r.chunks
    /\ disk = [faiss_index |-> Absent, chunks_pkl |-> Absent]
    /\ ret = [op |-> "__init__", outcome |-> "return"]
    /\ tieRule \in TieRules
    /\ calls = [s \in Sessions |-> [pc |-> "idle"]]
    /\ persisted = Nothing
    /\ text = Idle
    /\ chunker = Idle
    /\ fmt = Idle
    /\ batch = Idle
    /\ cleaned = Idle
    /\ log = <<>>
    /\ history = <<>>
    /\ turn = Idle

NextChat ==
    \/ \E fe \in QueryCallers : query(fe)
    \/ \E fe \in ScoreCallers : query_with_scores(fe)
    \/ consume

SpecChat == InitChat /\ [][NextChat]_vars

\* C11 as stated: a turn in which the query embedding or the index search
\* failed is not crashed by it: the pipeline returns a result with response,
\* context_chunks (empty) and num_chunks_retrieved, and the front end uses
\* the result without raising.
C11_FailedTurnIsServed ==
    (turn.pc \in {"returned", "consumed"} /\ turn.failure # "none") =>
        /\ {"response", "context_chunks", "num_chunks_retrieved"}
              \subseteq DOMAIN turn.result
        /\ turn.result.context_chunks = <<>>
        /\ turn.pc = "consumed" => turn.outcome = "shown"

----------------------------------------------------------------------------
(* chunk_by_size, one iteration of its loop at a time                      *)
(*                                                                         *)
(* chunk_size and overlap are read from the environment (config.py) and are *)
(* parameters of chunk_document, so the loop is followed here for several   *)
(* configurations with 0 <= overlap < chunk_size.  The state of the loop is *)
(* `start`; `window` is the (start, end) the last iteration sliced and      *)
(* `chunk` what it stripped from the slice.  The list of chunks is left out: *)
(* it grows by one chunk in every iteration that strips a non-empty slice.  *)

Configs ==
    {DocumentChunker(CHUNK_SIZE, CHUNK_OVERLAP),
     DocumentChunker(lookback, CHUNK_OVERLAP),
     DocumentChunker(lookback, 0)}

\* One pass through the body of `while start < text_length`.
chunk_by_size_step ==
    /\ chunker.pc = "scan"
    /\ chunker.start < text.len
    /\ LET n == text.len
           start == chunker.start
           end == window_end(chunker.self, text, 0, n, start)
       IN  chunker' = [pc |-> "scan", self |-> chunker.self,
                       start |-> next_start(chunker.self, start, end, n),
                       iterated |-> TRUE,
                       window |-> Span(start, end),
                       chunk |-> strip(text, slice_index(start, n), end)]
    /\ UNCHANGED <<notChunker, text>>

\* The loop condition fails: return chunks.
chunk_by_size_return ==
    /\ chunker.pc = "scan"
    /\ chunker.start >= text.len
    /\ chunker' = [chunker EXCEPT !.pc = "returned"]
    /\ UNCHANGED <<notChunker, text>>

InitScan ==
    /\ index = None
    /\ chunks = <<>>
    /\ disk = [faiss_index |-> Absent, chunks_pkl |-> Absent]
    /\ ret = [op |-> "__init__", outcome |-> "return"]
    /\ tieRule \in {"position"}
    /\ calls = [s \in Sessions |-> [pc |-> "idle"]]
    /\ persisted = Nothing
    /\ history = <<>>
    /\ turn = Idle
    /\ fmt = Idle
    /\ batch = Idle
    /\ cleaned = Idle
    /\ log = <<>>
    /\ text \in Docs
    /\ \E c \in Configs :
          chunker = [pc |-> "scan", self |-> c, start |-> 0,
                     iterated |-> FALSE, window |-> Span(0, 0),
                     chunk |-> Span(0, 0)]

NextScan ==
    \/ chunk_by_size_step
    \/ chunk_by_size_return

SpecScan == InitScan /\ [][NextScan]_vars

\* The positions of '.', '!' and '?' in the document.
Terminators == text.dot \cup text.bang \cup text.quest

\* The terminators among the last `lookback` characters of the window of
\* chunk_size characters at start, from the position `from` on.
TerminatorsOfWindow(start, from) ==
    {p \in Terminators :
        /\ p >= Max(from, start + chunker.self.chunk_size - lookback)
        /\ p < start + chunker.self.chunk_size}

Last(S) == CHOOSE p \in S : \A q \in S : q <= p

\* C21 as stated: a window whose raw end lies before the end of the text is
\* cut just after the last '.', '!' or '?' of its last 100 characters when
\* there is one, and at the raw end otherwise.
C21_CutAfterLastTerminator ==
    (chunker.iterated /\ chunker.window.lo + chunker.self.chunk_size < text.len)
        => LET start == chunker.window.lo
               T == TerminatorsOfWindow(start, start)
           IN  chunker.window.hi =
                    IF T # {} THEN Last(T) + 1
                    ELSE start + chunker.self.chunk_size

\* C21 amended: a window that starts at a position of the text and whose raw
\* end lies before the end of the text is cut just after the last '.', '!'
\* or '?' that lies in its last 100 characters and after its first
\* character, when there is one, and at the raw end otherwise.
C21_CutAfterLastTerminatorPastStart ==
    (/\ chunker.iterated
     /\ chunker.window.lo >= 0
     /\ chunker.window.lo + chunker.self.chunk_size < text.len)
        => LET start == chunker.window.lo
               T == TerminatorsOfWindow(start, start + 1)
           IN  chunker.window.hi =
                    IF T # {} THEN Last(T) + 1
                    ELSE start + chunker.self.chunk_size

\* An iteration cut its window after the last of two terminators in the last
\* 100 characters, short of the raw end.
C21_Witness ==
    /\ chunker.iterated
    /\ chunker.window.lo >= 0
    /\ chunker.window.lo + chunker.self.chunk_size < text.len
    /\ Cardinality(TerminatorsOfWindow(chunker.window.lo,
                                       chunker.window.lo + 1)) = 2
    /\ chunker.window.hi < chunker.window.lo + chunker.self.chunk_size

\* C24: in every iteration of the loop of chunk_by_size the start position
\* grows, and it is never negative.
C24_StartGrows ==
    /\ chunker.start >= 0
    /\ chunker.iterated => chunker.start > chunker.window.lo

----------------------------------------------------------------------------
(* TextPreprocessor (text_preprocessing.py)                                *)
(*                                                                         *)
(* A text is a sequence of the characters the normaliser tells apart: a    *)
(* space, a newline, a letter, an em dash, and "Section 1:" taken as one   *)
(* piece (what r'Section \d+:' matches).                                   *)

MaxChars == 5   \* longest text handed to the normaliser

Space == " "
Newline == "\n"
Letter == "a"
EmDash == "em dash"
Hyphen == "-"
Heading == "Section 1:"

Pieces == {Space, Newline, Letter, EmDash, Heading}

RawTexts == UNION {[1..n -> Pieces] : n \in 0..MaxChars}

\* What \s matches.
whitespace(c) == c \in {Space, Newline}

\* What \w matches at the start of a piece.
word(c) == c \in {Letter, Heading}

\* re.sub(r' +', ' ', text)
RECURSIVE collapse_spaces(_)
collapse_spaces(s) ==
    IF Len(s) <= 1 THEN s
    ELSE IF s[1] = Space /\ s[2] = Space THEN collapse_spaces(Tail(s))
    ELSE <<s[1]>> \o collapse_spaces(Tail(s))

\* The length of the longest prefix of s that is all whitespace.
RECURSIVE run_of_whitespace(_)
run_of_whitespace(s) ==
    IF s = <<>> \/ ~whitespace(s[1]) THEN 0
    ELSE 1 + run_of_whitespace(Tail(s))

\* re.sub(r'\n\s*\n\s*\n+', '\n\n', text): a match starts at a newline that
\* has two more newlines after it in the same run of whitespace, and, its
\* quantifiers being greedy, ends with the last newline of that run.
RECURSIVE collapse_newlines(_)
collapse_newlines(s) ==
    IF s = <<>> THEN <<>>
    ELSE IF s[1] # Newline THEN <<s[1]>> \o collapse_newlines(Tail(s))
    ELSE LET nls == {i \in 1..run_of_whitespace(s) : s[i] = Newline}
             last == CHOOSE i \in nls : \A j \in nls : j <= i
         IN  IF Cardinality(nls) >= 3
             THEN <<Newline, Newline>>
                    \o collapse_newlines(SubSeq(s, last + 1, Len(s)))
             ELSE <<s[1]>> \o collapse_newlines(Tail(s))

\* text.strip()
RECURSIVE strip_text(_)
strip_text(s) ==
    IF s = <<>> THEN s
    ELSE IF whitespace(s[1]) THEN strip_text(Tail(s))
    ELSE IF whitespace(s[Len(s)]) THEN strip_text(SubSeq(s, 1, Len(s) - 1))
    ELSE s

remove_extra_whitespace(s) ==
    strip_text(collapse_newlines(collapse_spaces(s)))

\* The em and en dashes become '-'.
normalize_unicode(s) ==
    [i \in 1..Len(s) |-> IF s[i] = EmDash THEN Hyphen ELSE s[i]]

\* re.sub(r'(Section \d+:)', r'\n\n\1', text)
RECURSIVE space_headers(_)
space_headers(s) ==
    IF s = <<>> THEN <<>>
    ELSE IF s[1] = Heading
         THEN <<Newline, Newline, Heading>> \o space_headers(Tail(s))
    ELSE <<s[1]>> \o space_headers(Tail(s))

\* re.sub(r'(\w+:)(\w)', r'\1 \2', text): the only colon of a text is the
\* one that ends a heading.
RECURSIVE space_after_colon(_)
space_after_colon(s) ==
    IF Len(s) <= 1 THEN s
    ELSE IF s[1] = Heading /\ word(s[2])
         THEN <<s[1], Space, s[2]>> \o space_after_colon(Tail(Tail(s)))
    ELSE <<s[1]>> \o space_after_colon(Tail(s))

fix_line_breaks(s) == space_after_colon(space_headers(s))

clean_text_of(s) ==
    fix_line_breaks(normalize_unicode(remove_extra_whitespace(s)))

notNormaliser == <<index, chunks, disk, ret, tieRule, calls, persisted,
                   history, turn, chunker, fmt, batch, log>>

\* preprocess_text(text): TextPreprocessor().preprocess_document(text).
preprocess_text ==
    /\ cleaned.pc = "idle"
    /\ cleaned' = [pc |-> "cleaned", result |-> clean_text_of(text)]
    /\ UNCHANGED <<notNormaliser, text>>

\* build_index hands the normalised text to the chunker.
text_taken ==
    /\ cleaned.pc = "cleaned"
    /\ cleaned' = [cleaned EXCEPT !.pc = "chunking"]
    /\ UNCHANGED <<notNormaliser, text>>

InitNorm ==
    /\ index = None
    /\ chunks = <<>>
    /\ disk = [faiss_index |-> Absent, chunks_pkl |-> Absent]
    /\ ret = [op |-> "__init__", outcome |-> "return"]
    /\ tieRule \in {"position"}
    /\ calls = [s \in Sessions |-> [pc |-> "idle"]]
    /\ persisted = Nothing
    /\ history = <<>>
    /\ turn = Idle
    /\ chunker = Idle
    /\ fmt = Idle
    /\ batch = Idle
    /\ log = <<>>
    /\ text \in RawTexts
    /\ cleaned = Idle

NextNorm ==
    \/ preprocess_text
    \/ text_taken

SpecNorm == InitNorm /\ [][NextNorm]_vars

\* C22: the result of the normaliser neither begins nor ends with
\* whitespace, and nowhere has three newlines in a row.
C22_TrimmedAndCollapsed ==
    cleaned.pc = "cleaned" =>
        LET r == cleaned.result
        IN  /\ r # <<>> => ~whitespace(r[1]) /\ ~whitespace(r[Len(r)])
            /\ \A i \in 1..(Len(r) - 2) :
                  ~(r[i] = Newline /\ r[i + 1] = Newline /\ r[i + 2] = Newline)

----------------------------------------------------------------------------
(* ConversationManager (llm_gemini.py), and RAGPipeline as its one user    *)
(*                                                                         *)
(* `history` is self.history; `log` lists every message added since the    *)
(* last clear.  A message's content is its number in that list, so that no *)
(* two messages of the list are equal.  `turn.owner` tells whether the     *)
(* manager is the one RAGPipeline made, which only a successful query and  *)
(* clear_history reach, or one that a caller drives method by method.      *)

MaxAdded == 12  \* most messages added between two clears

Owners == {"RAGPipeline", "caller"}

Message(role, content) == [role |-> role, content |-> content]

notManager == <<index, chunks, disk, ret, tieRule, calls, persisted,
                text, chunker, fmt, batch, cleaned>>

\* ConversationManager.add_user_message(message)
user_message ==
    /\ turn.owner = "caller"
    /\ Len(log) < MaxAdded
    /\ history' = add_user_message(history, Len(log) + 1)
    /\ log' = Append(log, Message("user", Len(log) + 1))
    /\ turn' = [turn EXCEPT !.pc = "added"]
    /\ UNCHANGED notManager

\* ConversationManager.add_assistant_message(message)
assistant_message ==
    /\ turn.owner = "caller"
    /\ Len(log) < MaxAdded
    /\ history' = add_assistant_message(history, Len(log) + 1)
    /\ log' = Append(log, Message("assistant", Len(log) + 1))
    /\ turn' = [turn EXCEPT !.pc = "added"]
    /\ UNCHANGED notManager

\* Step 4 of a RAGPipeline.query that did not fail: the query and then the
\* response are added.
query_recorded ==
    /\ turn.owner = "RAGPipeline"
    /\ Len(log) + 2 <= MaxAdded
    /\ history' = add_assistant_message(
                      add_user_message(history, Len(log) + 1), Len(log) + 2)
    /\ log' = log \o <<Message("user", Len(log) + 1),
                       Message("assistant", Len(log) + 2)>>
    /\ turn' = [turn EXCEPT !.pc = "recorded"]
    /\ UNCHANGED notManager

\* ConversationManager.clear(), also through RAGPipeline.clear_history().
clear ==
    /\ history' = <<>>
    /\ log' = <<>>
    /\ turn' = [turn EXCEPT !.pc = "cleared"]
    /\ UNCHANGED notManager

\* ConversationManager(): self.history = [], max_history = 10.
InitHistory ==
    /\ index = None
    /\ chunks = <<>>
    /\ disk = [faiss_index |-> Absent, chunks_pkl |-> Absent]
    /\ ret = [op |-> "__init__", outcome |-> "return"]
    /\ tieRule \in {"position"}
    /\ calls = [s \in Sessions |-> [pc |-> "idle"]]
    /\ persisted = Nothing
    /\ text = Idle
    /\ chunker = Idle
    /\ fmt = Idle
    /\ batch = Idle
    /\ cleaned = Idle
    /\ history = <<>>
    /\ log = <<>>
    /\ \E o \in Owners : turn = [pc |-> "new", owner |-> o]

NextHistory ==
    \/ user_message
    \/ assistant_message
    \/ query_recorded
    \/ clear

SpecHistory == InitHistory /\ [][NextHistory]_vars

\* The roles of h alternate, a user message first.
Alternates(h) ==
    \A i \in 1..Len(h) :
        h[i].role = IF i % 2 = 1 THEN "user" ELSE "assistant"

----------------------------------------------------------------------------
(* The one cached RAGPipeline under several front-end sessions (app.py)    *)
(*                                                                         *)
(* load_pipeline is an st.cache_resource, so every Streamlit session, each *)
(* run by a thread of its own, calls query on the same pipeline and the    *)
(* same ConversationManager; no lock is taken.  query is followed here     *)
(* statement by statement: `calls[s]` is the place session s has reached.  *)
(* A query carries the session and the length of the history at its entry  *)
(* as its identity, and a response names the query it answers.             *)

Query(s, user_query) ==
    [text |-> user_query, session |-> s, at |-> Len(history)]

Response(q, response) == [text |-> response, to |-> q]

notShared == <<index, chunks, disk, ret, tieRule, persisted,
               turn, text, chunker, fmt, batch, cleaned, log>>

\* Steps 1 and 2 of query: retrieve, format the context and build the
\* prompt; an exception ends the call in the except branch.
query_retrieve(s) ==
    /\ calls[s].pc \in {"idle", "done"}
    /\ Len(history) < 2 * MaxTurns
    /\ \E user_query \in UserQueries, e \in EmbedOutcomes :
         LET got == retrieve_with_scores(user_query, e)
         IN  calls' = [calls EXCEPT ![s] =
                IF got.failure # "none"
                THEN [pc |-> "done", failure |-> got.failure,
                      result |-> query_error(user_query)]
                ELSE [pc |-> "retrieved", failure |-> "none",
                      q |-> Query(s, user_query),
                      prompt |-> IF history # <<>> THEN "followup" ELSE "rag",
                      context_chunks |-> chunks_of(got.results)]]
    /\ UNCHANGED <<notShared, history>>

\* Step 3: response = self.llm.generate_response(prompt)
query_generate(s) ==
    /\ calls[s].pc = "retrieved"
    /\ \E response \in Responses :
         calls' = [calls EXCEPT ![s] =
                      [pc |-> "generated",
                       response |-> Response(calls[s].q, response)] @@ calls[s]]
    /\ UNCHANGED <<notShared, history>>

\* Step 4, first statement: add_user_message(user_query)
query_add_user(s) ==
    /\ calls[s].pc = "generated"
    /\ history' = add_user_message(history, calls[s].q)
    /\ calls' = [calls EXCEPT ![s] = [pc |-> "user_added"] @@ calls[s]]
    /\ UNCHANGED notShared

\* Step 4, second statement: add_assistant_message(response), and the
\* return of the result.
query_add_assistant(s) ==
    /\ calls[s].pc = "user_added"
    /\ history' = add_assistant_message(history, calls[s].response)
    /\ calls' = [calls EXCEPT ![s] =
                    [pc |-> "done",
                     result |-> [query |-> calls[s].q.text,
                                 response |-> calls[s].response.text,
                                 context_chunks |-> calls[s].context_chunks,
                                 num_chunks_retrieved |->
                                     Len(calls[s].context_chunks)]]
                    @@ calls[s]]
    /\ UNCHANGED notShared

NextSessions ==
    \E s \in Sessions :
        \/ query_retrieve(s)
        \/ query_generate(s)
        \/ query_add_user(s)
        \/ query_add_assistant(s)

\* The sessions share the pipeline that load_pipeline made.
SpecSessions == InitChat /\ [][NextSessions]_vars

\* C28: whenever no query is in progress, the shared history is a list of
\* pairs, a user message and right after it the assistant's response to
\* that same query.
C28_PairsWhenQuiet ==
    (\A s \in Sessions : calls[s].pc \in {"idle", "done"}) =>
        /\ Len(history) % 2 = 0
        /\ \A i \in 1..Len(history) :
              i % 2 = 1 =>
                 /\ history[i].role = "user"
                 /\ history[i + 1].role = "assistant"
                 /\ history[i + 1].content.to = history[i].content

====
